---- MODULE Spec2Model ----
(***************************************************************************)
(* Model of subnetcalculator.py: Calculator (compute, _compute,            *)
(* find_structure_len, find_prefix) and Exporter (build_data).             *)
(*                                                                         *)
(* An IPv4Network is modelled by the sequence of its network bits: its     *)
(* length is prefixlen, the host bits are zero by construction.  The       *)
(* result dict is a sequence of entries in insertion order.  Python's      *)
(* unbounded integers handed to find_prefix are two limbs of 16 bits.      *)
(***************************************************************************)
EXTENDS Integers, Sequences, FiniteSets, TLC

VARIABLES config, pc, stack, result, err, assigned, data, value, found

vars == <<config, pc, stack, result, err, assigned, data, value, found>>

(* ------------------------------ bounds -------------------------------- *)

\* Largest number of structure elements (leaves, placeholders, groups) of a tree.
MaxNodes == 3

\* Largest count of a placeholder mapping {"__placeholder__": count}.
MaxCount == 2

(* ------------------------- program constants -------------------------- *)

MaxPrefixLen == 32

PrefixSearchEnd == 32

\* What find_prefix gives when it raises ValueError('Cannot find prefix').
NoPrefix == -1

\* An omitted SubnetMetadata field (Field(default=None)).
None == "<None>"

Placeholder == "__placeholder__"

(* --------------------------- IPv4Network ------------------------------ *)

prefixlen(net) == Len(net)

\* The w bits of i, most significant first.
Bits(i, w) == [k \in 1..w |-> (i \div (2 ^ (w - k))) % 2]

\* Mutant of subnets: every part is built on the first address of the network.
subnets_same_start(net, prefixlen_diff) ==
    IF prefixlen(net) = MaxPrefixLen
    THEN <<net>>
    ELSE [n \in 1..(2 ^ prefixlen_diff) |-> net \o Bits(0, prefixlen_diff)]

\* Mutant of subnets: the parts are counted from address 0, the network's own
\* address left out.
subnets_without_start(net, prefixlen_diff) ==
    IF prefixlen(net) = MaxPrefixLen
    THEN <<net>>
    ELSE [n \in 1..(2 ^ prefixlen_diff) |->
             [k \in 1..Len(net) |-> 0] \o Bits(n - 1, prefixlen_diff)]

\* list(parent_subnet.subnets(prefixlen_diff)): a /32 yields itself, any other
\* network its 2^diff parts by increasing address.
subnets(net, prefixlen_diff) ==
    IF prefixlen(net) = MaxPrefixLen
    THEN <<net>>
    ELSE [n \in 1..(2 ^ prefixlen_diff) |-> net \o Bits(n - 1, prefixlen_diff)]

\* subnet_cidr[0] and subnet_cidr[-1]: the lowest and highest address, 32 bits.
first_address(net) == net \o [k \in 1..(MaxPrefixLen - Len(net)) |-> 0]

last_address(net) == net \o [k \in 1..(MaxPrefixLen - Len(net)) |-> 1]

\* Every address of a is an address of b.
subnet_of(a, b) == Len(b) <= Len(a) /\ SubSeq(a, 1, Len(b)) = b

overlaps(a, b) == subnet_of(a, b) \/ subnet_of(b, a)

(* ------------------------- structure elements ------------------------- *)

Str(s) == [kind |-> "str", id |-> s, count |-> 0, items |-> <<>>]

Dict(n) == [kind |-> "dict", id |-> "", count |-> n, items |-> <<>>]

List(s) == [kind |-> "list", id |-> "", count |-> 0, items |-> s]

(* -------------------------- unbounded integers ------------------------ *)

Limb == 2 ^ 16

ToBig(n) == [hi |-> n \div Limb, lo |-> n % Limb]

\* math.pow(2, i) for i in 0..32.
Pow2(i) == IF i < 16 THEN [hi |-> 0, lo |-> 2 ^ i] ELSE [hi |-> 2 ^ (i - 16), lo |-> 0]

LessEq(a, b) == a.hi < b.hi \/ (a.hi = b.hi /\ a.lo <= b.lo)

(* ------------------------------ Calculator ---------------------------- *)

RECURSIVE find_structure_len(_)
find_structure_len(structure) ==
    IF structure = <<>>
    THEN 0
    ELSE LET item == structure[Len(structure)]
             rest == find_structure_len(SubSeq(structure, 1, Len(structure) - 1))
         IN  IF item.kind = "dict" THEN rest + item.count ELSE rest + 1

RECURSIVE find_prefix_from(_, _)
find_prefix_from(v, i) ==
    IF i >= PrefixSearchEnd
    THEN NoPrefix
    ELSE IF LessEq(v, Pow2(i)) THEN i ELSE find_prefix_from(v, i + 1)

\* Mutant of find_prefix: the search starts at 1, as range(1, 32) would.
find_prefix_from_one(v) == find_prefix_from(v, 1)

find_prefix(v) == find_prefix_from(v, 0)

\* The head of _compute, up to the list of child subnets: the frame of the call,
\* or the error it raises.
_compute(parent_subnet, structure) ==
    LET structure_len == find_structure_len(structure)
        prefix == find_prefix(ToBig(structure_len))
    IN  IF prefix = NoPrefix
        THEN [raised |-> TRUE, error |-> "ValueError: Cannot find prefix"]
        ELSE IF prefix + prefixlen(parent_subnet) > MaxPrefixLen
        THEN [raised |-> TRUE, error |-> "ValueError: Too many subnets"]
        ELSE [raised |-> FALSE,
              frame |-> [parent_subnet |-> parent_subnet,
                         structure |-> structure,
                         prefix |-> prefix,
                         child_subnets |-> subnets(parent_subnet, prefix),
                         i |-> 0]]

\* Mutant of SetItem: a key the dict holds is deleted and inserted again, at the end.
SetItemAtEnd(d, key, net) ==
    Append(SelectSeq(d, LAMBDA e : e.id # key), [id |-> key, cidr |-> net])

\* self.result[key] = net: a key the dict holds keeps its place.
SetItem(d, key, net) ==
    IF \E k \in 1..Len(d) : d[k].id = key
    THEN [k \in 1..Len(d) |-> IF d[k].id = key THEN [id |-> key, cidr |-> net] ELSE d[k]]
    ELSE Append(d, [id |-> key, cidr |-> net])

Top == stack[Len(stack)]

Item == Top.structure[Top.i + 1]

InLoop == pc = "computing" /\ stack # <<>> /\ Top.i < Len(Top.structure)

Advance(s) == [s EXCEPT ![Len(s)].i = @ + 1]

\* compute(): the call of _compute on the configured network and structure.
compute ==
    /\ pc = "start"
    /\ LET c == _compute(config.network_cidr, config.structure)
       IN  IF c.raised
           THEN /\ pc' = "raised"
                /\ err' = c.error
                /\ stack' = stack
           ELSE /\ pc' = "computing"
                /\ err' = err
                /\ stack' = <<c.frame>>
    /\ UNCHANGED <<config, result, assigned, data, value, found>>

\* child_subnet = child_subnets[i] with i past the end of the list.
StepIndexError ==
    /\ InLoop
    /\ Top.i >= Len(Top.child_subnets)
    /\ pc' = "raised"
    /\ err' = "IndexError"
    /\ UNCHANGED <<config, stack, result, assigned, data, value, found>>

\* structure_item in [None, '__placeholder__']: continue.
StepPlaceholder ==
    /\ InLoop
    /\ Top.i < Len(Top.child_subnets)
    /\ Item.kind = "str" /\ Item.id = Placeholder
    /\ stack' = Advance(stack)
    /\ UNCHANGED <<config, pc, result, err, assigned, data, value, found>>

\* isinstance(structure_item, list): self._compute(child_subnet, structure_item).
StepList ==
    /\ InLoop
    /\ Top.i < Len(Top.child_subnets)
    /\ Item.kind = "list"
    /\ LET c == _compute(Top.child_subnets[Top.i + 1], Item.items)
       IN  IF c.raised
           THEN /\ pc' = "raised"
                /\ err' = c.error
                /\ stack' = stack
           ELSE /\ pc' = pc
                /\ err' = err
                /\ stack' = Append(stack, c.frame)
    /\ UNCHANGED <<config, result, assigned, data, value, found>>

\* isinstance(structure_item, dict): continue.
StepDict ==
    /\ InLoop
    /\ Top.i < Len(Top.child_subnets)
    /\ Item.kind = "dict"
    /\ stack' = Advance(stack)
    /\ UNCHANGED <<config, pc, result, err, assigned, data, value, found>>

\* self.result[structure_item] = child_subnet.
StepAssign ==
    /\ InLoop
    /\ Top.i < Len(Top.child_subnets)
    /\ Item.kind = "str" /\ Item.id # Placeholder
    /\ result' = SetItem(result, Item.id, Top.child_subnets[Top.i + 1])
    /\ assigned' = Append(assigned, [id |-> Item.id,
                                     child_subnet |-> Top.child_subnets[Top.i + 1],
                                     parent_subnet |-> Top.parent_subnet,
                                     structure |-> Top.structure,
                                     prefix |-> Top.prefix,
                                     i |-> Top.i,
                                     depth |-> Len(stack)])
    /\ stack' = Advance(stack)
    /\ UNCHANGED <<config, pc, err, data, value, found>>

\* The loop of a _compute call is over: the call returns to its caller's loop, and
\* the outermost one to compute(), which returns self.result.
Return ==
    /\ pc = "computing" /\ stack # <<>>
    /\ Top.i = Len(Top.structure)
    /\ IF Len(stack) = 1
       THEN /\ stack' = <<>>
            /\ pc' = "returned"
       ELSE /\ stack' = Advance(SubSeq(stack, 1, Len(stack) - 1))
            /\ pc' = pc
    /\ UNCHANGED <<config, result, err, assigned, data, value, found>>

(* ------------------------------- Exporter ----------------------------- *)

\* Exporter.default_metadata when none is given.
default_metadata == [present |-> TRUE, name |-> "", description |-> "---", tier |-> "---"]

SubnetInfo(subnet_id, name, subnet_cidr, description) ==
    [id |-> subnet_id,
     name |-> name,
     cidr |-> subnet_cidr,
     description |-> description,
     first_address |-> first_address(subnet_cidr),
     last_address |-> last_address(subnet_cidr)]

\* The loop of build_data from entry k of the mapping on: the records appended, and
\* the error that ends it, if any. len(None) raises TypeError; a description of
\* None fails the validation of SubnetInfo.
RECURSIVE build_data_from(_, _, _, _)
build_data_from(structure, metadata, k, acc) ==
    IF k > Len(structure)
    THEN [data |-> acc, error |-> ""]
    ELSE LET subnet_id == structure[k].id
             subnet_cidr == structure[k].cidr
             subnet_metadata == IF metadata[subnet_id].present
                                THEN metadata[subnet_id]
                                ELSE default_metadata
         IN  IF subnet_metadata.name = None
             THEN [data |-> acc, error |-> "TypeError"]
             ELSE IF subnet_metadata.description = None
             THEN [data |-> acc, error |-> "ValidationError"]
             ELSE build_data_from(structure, metadata, k + 1,
                      Append(acc, SubnetInfo(subnet_id,
                                             IF subnet_metadata.name # ""
                                             THEN subnet_metadata.name
                                             ELSE subnet_id,
                                             subnet_cidr,
                                             subnet_metadata.description)))

build_data(structure, metadata) == build_data_from(structure, metadata, 1, <<>>)

(* -------------------------------- inputs ------------------------------ *)

Ids == {"a", "b"}

\* 10.1.2.3
BaseAddress == <<0,0,0,0,1,0,1,0, 0,0,0,0,0,0,0,1, 0,0,0,0,0,0,1,0, 0,0,0,0,0,0,1,1>>

RootPrefixLens == {0, 8, 30, 31, 32}

Roots == {SubSeq(BaseAddress, 1, n) : n \in RootPrefixLens}

\* Elements that hold no other: an identifier, '__placeholder__', a count mapping.
Atoms == {Str(s) : s \in Ids \cup {Placeholder}} \cup {Dict(n) : n \in -1..MaxCount}

RECURSIVE StructuresOf(_)
\* The structures of exactly n elements, nested ones counted.
StructuresOf(n) ==
    IF n = 0
    THEN {<<>>}
    ELSE UNION {
             {<<first>> \o rest :
                  first \in (IF k = 1 THEN Atoms ELSE {}) \cup
                            {List(s) : s \in StructuresOf(k - 1)},
                  rest \in StructuresOf(n - k)} : k \in 1..n}

Structures == UNION {StructuresOf(n) : n \in 0..MaxNodes}

Absent == [present |-> FALSE, name |-> None, description |-> None, tier |-> None]

Meta(name, description) ==
    [present |-> TRUE, name |-> name, description |-> description, tier |-> None]

\* config.metadata: per identifier an entry, or none.
Metadatas ==
    {[id \in Ids |-> Absent],
     [id \in Ids |-> Meta("NAME", "text")],
     [id \in Ids |-> IF id = "a" THEN Meta("", "text") ELSE Absent],
     [id \in Ids |-> IF id = "a" THEN Meta(None, "text") ELSE Absent],
     [id \in Ids |-> IF id = "a" THEN Meta("NAME", None) ELSE Meta("NAME", "text")],
     [id \in Ids |-> IF id = "b" THEN Meta(None, None) ELSE Absent]}

Succ(v) == IF v.lo = Limb - 1 THEN [hi |-> v.hi + 1, lo |-> 0] ELSE [v EXCEPT !.lo = @ + 1]

Pred(v) == IF v.lo = 0 THEN [hi |-> v.hi - 1, lo |-> Limb - 1] ELSE [v EXCEPT !.lo = @ - 1]

\* The powers of two up to 2^32 and their neighbours, within [0, 2^32].
PrefixInputs ==
    {Pow2(k) : k \in 0..32} \cup {Pred(Pow2(k)) : k \in 0..32} \cup {Succ(Pow2(k)) : k \in 0..31}

(* ---------------------------- specifications -------------------------- *)

\* Exporter(config, structure): __init__ runs build_data over the mapping that
\* compute returned.
Exporter ==
    /\ pc = "returned"
    /\ \E metadata \in Metadatas :
          LET b == build_data(result, metadata)
          IN  /\ config' = [config EXCEPT !.metadata = metadata]
              /\ data' = b.data
              /\ err' = b.error
              /\ pc' = IF b.error = "" THEN "exported" ELSE "export_raised"
    /\ UNCHANGED <<stack, result, assigned, value, found>>

Init ==
    /\ config \in [network_cidr : Roots, structure : Structures,
                   metadata : {[id \in Ids |-> Absent]}]
    /\ pc = "start"
    /\ stack = <<>>
    /\ result = <<>>
    /\ err = ""
    /\ assigned = <<>>
    /\ data = <<>>
    /\ value = ToBig(0)
    /\ found = NoPrefix

Next ==
    \/ compute
    \/ StepIndexError
    \/ StepPlaceholder
    \/ StepList
    \/ StepDict
    \/ StepAssign
    \/ Return
    \/ Exporter

Spec == Init /\ [][Next]_vars

\* find_prefix alone, on inputs up to 2^32.
CallFindPrefix ==
    /\ pc = "find_prefix"
    /\ found' = find_prefix(value)
    /\ pc' = "found"
    /\ UNCHANGED <<config, stack, result, err, assigned, data, value>>

InitPrefix ==
    /\ config = [network_cidr |-> <<>>, structure |-> <<>>,
                 metadata |-> [id \in Ids |-> Absent]]
    /\ pc = "find_prefix"
    /\ stack = <<>>
    /\ result = <<>>
    /\ err = ""
    /\ assigned = <<>>
    /\ data = <<>>
    /\ value \in PrefixInputs
    /\ found = NoPrefix

NextPrefix == CallFindPrefix

SpecPrefix == InitPrefix /\ [][NextPrefix]_vars

(* -------------------------------- claims ------------------------------ *)

\* compute() has returned its mapping.
Succeeded == pc \in {"returned", "exported", "export_raised"}

root == config.network_cidr

\* The identifiers of the leaves of a structure tree, in pre-order.
RECURSIVE Leaves(_)
Leaves(structure) ==
    IF structure = <<>>
    THEN <<>>
    ELSE LET h == Head(structure)
             rest == Leaves(Tail(structure))
         IN  IF h.kind = "list" THEN Leaves(h.items) \o rest
             ELSE IF h.kind = "str" /\ h.id # Placeholder THEN <<h.id>> \o rest
             ELSE rest

\* A sequence without the later occurrences of its elements.
RECURSIVE FirstVisits(_)
FirstVisits(s) ==
    IF s = <<>>
    THEN <<>>
    ELSE LET init == FirstVisits(SubSeq(s, 1, Len(s) - 1))
             last == s[Len(s)]
         IN  IF \E k \in 1..Len(init) : init[k] = last THEN init ELSE Append(init, last)

HasDuplicate(s) == \E j, k \in 1..Len(s) : j # k /\ s[j] = s[k]

\* The sum of the slot weights of the elements before index i (0-based): 1 for an
\* identifier, a group or a single placeholder, k for a placeholder of count k.
RECURSIVE WeightBefore(_, _)
WeightBefore(structure, i) ==
    IF i = 0
    THEN 0
    ELSE WeightBefore(structure, i - 1)
         + (IF structure[i].kind = "dict" THEN structure[i].count ELSE 1)

CountsPositive(structure) ==
    \A k \in 1..Len(structure) : structure[k].kind = "dict" => structure[k].count >= 1

\* C1: whenever compute succeeds, every block assigned to a leaf lies within the
\* block of its structural parent, hence within the root block, and no two blocks
\* of the returned mapping share an address.
C1_NestedAndDisjoint ==
    Succeeded =>
        /\ \A k \in 1..Len(assigned) :
              /\ subnet_of(assigned[k].child_subnet, assigned[k].parent_subnet)
              /\ subnet_of(assigned[k].child_subnet, root)
        /\ \A j, k \in 1..Len(result) :
              j # k => ~overlaps(result[j].cidr, result[k].cidr)

\* A mapping of two blocks, one of them assigned inside a nested group.
C1_Witness ==
    /\ pc = "returned"
    /\ Len(result) = 2
    /\ \E k \in 1..Len(assigned) : assigned[k].depth = 2

\* C2: a leaf receives the sub-block whose index is the sum of the slot weights of
\* the elements before it in its sequence, a placeholder of count k weighing k.
C2_PositionalBySlotWeight ==
    \A k \in 1..Len(assigned) :
        LET e == assigned[k]
        IN  CountsPositive(e.structure) =>
                e.child_subnet =
                    subnets(e.parent_subnet, e.prefix)[WeightBefore(e.structure, e.i) + 1]

\* C3: after a capacity error the result mapping holds no entry of the run.
C3_NoPartialMapping ==
    (pc = "raised" /\ err = "ValueError: Too many subnets") => result = <<>>

\* C4: a tree in which a leaf identifier occurs twice makes the allocation raise,
\* and no output record is produced.
C4_DuplicateIdentifierRaises ==
    HasDuplicate(Leaves(config.structure)) => (~Succeeded /\ data = <<>>)

\* The smallest p in 0..32 with 2^p >= v.
MinimalPrefix(v) ==
    CHOOSE p \in 0..32 :
        /\ LessEq(v, Pow2(p))
        /\ \A q \in 0..(p - 1) : ~LessEq(v, Pow2(q))

\* C5: for every n in [0, 2^32] find_prefix returns, without raising, the smallest
\* p with 2^p >= n.
C5_FindPrefixMinimalUpTo2Pow32 ==
    pc = "found" => (found # NoPrefix /\ found = MinimalPrefix(value))

\* C6 as stated: every block of the returned mapping has a prefix length strictly
\* greater than the root's.
C6_StrictDescendant ==
    Succeeded =>
        \A k \in 1..Len(result) : prefixlen(result[k].cidr) > prefixlen(root)

\* C6 as amended: every block of the returned mapping lies within the root block,
\* with a prefix length greater than or equal to the root's, and strictly greater
\* when the top-level sequence has a structure length of 2 or more.
C6_DescendantOrRoot ==
    Succeeded =>
        \A k \in 1..Len(result) :
            /\ subnet_of(result[k].cidr, root)
            /\ prefixlen(result[k].cidr) >= prefixlen(root)
            /\ find_structure_len(config.structure) >= 2
                   => prefixlen(result[k].cidr) > prefixlen(root)

\* A leaf of the returned mapping holds the root block itself.
C6_Witness ==
    /\ pc = "returned"
    /\ \E k \in 1..Len(result) : result[k].cidr = root

\* C7: an empty structure never raises and yields an empty mapping, whatever the
\* prefix length of the root; a group without children never raises either, and
\* the mapping holds the identifiers of the leaves only.
C7_EmptyStructureNeverErrors ==
    /\ config.structure = <<>> =>
           (pc \notin {"raised", "export_raised"} /\ err = "" /\ result = <<>>)
    /\ (pc = "raised" /\ stack # <<>> /\ err # "IndexError") => Item.items # <<>>
    /\ Succeeded =>
           {result[k].id : k \in 1..Len(result)}
               = {Leaves(config.structure)[k] : k \in 1..Len(Leaves(config.structure))}

\* compute has returned the empty mapping for an empty structure on a /32 root.
C7_Witness ==
    /\ pc = "returned"
    /\ config.structure = <<>>
    /\ prefixlen(root) = MaxPrefixLen
    /\ result = <<>>

\* C8: whatever the metadata, build_data raises nothing and gives every entry of
\* the mapping a record, an omitted name or description taking its default and
\* the name being the metadata name when not empty, the identifier otherwise.
C8_BuildDataTotal ==
    pc \in {"exported", "export_raised"} =>
        /\ err = ""
        /\ Len(data) = Len(result)
        /\ \A k \in 1..Len(result) :
              LET m == config.metadata[result[k].id]
              IN  /\ data[k].id = result[k].id
                  /\ data[k].name =
                         (IF m.present /\ m.name # None /\ m.name # ""
                          THEN m.name ELSE result[k].id)
                  /\ data[k].description =
                         (IF m.present /\ m.description # None
                          THEN m.description ELSE default_metadata.description)

\* C9: the exporter's records are one per entry of the mapping, in the order in
\* which the pre-order walk of the structure tree first visits their leaves.
C9_RecordsInPreOrder ==
    pc = "exported" =>
        /\ Len(data) = Len(result)
        /\ [k \in 1..Len(data) |-> data[k].id] = FirstVisits(Leaves(config.structure))
        /\ \A k \in 1..Len(data) : data[k].cidr = result[k].cidr

\* Two records exported for a tree of three leaves, one identifier met twice.
C9_Witness ==
    /\ pc = "exported"
    /\ Len(data) = 2
    /\ Len(Leaves(config.structure)) = 3

\* C10: in every call of _compute past the capacity check, the structure has no
\* more elements than the split has sub-blocks, so child_subnets[i] exists.
C10_IndexWithinChildSubnets ==
    /\ err # "IndexError"
    /\ \A k \in 1..Len(stack) :
          Len(stack[k].structure) <= Len(stack[k].child_subnets)

====
